---------------------------- MODULE Spec2Model ----------------------------
(***************************************************************************)
(* The population time-evolution engine of Starburst99 (Python edition):   *)
(* Starburst99.run and Starburst99._main_calculation_loop with the         *)
(* density / stellar-state / temperature phases, the nine derived-quantity *)
(* calculators, the emit and the clock.                                    *)
(*                                                                         *)
(* Numbers.  The program works in floats; the model works in integers and  *)
(* fixes one unit per quantity so that every value it meets is exact:      *)
(*   time, tbiv, tmax, time1, tvar, track ages   10^6 yr                   *)
(*   log L, log Teff (spectra[i,0], spectra[i,1]) 10^-3 dex                *)
(*   dens                                         10^6/600 stars           *)
(*   wind_power                                   0.05 * dens unit         *)
(*   sn_rates                                     10^-10 * dens unit / yr  *)
(* Arrays are 1-based sequences: the program's a[i] is a[i+1] here.        *)
(***************************************************************************)
EXTENDS Integers, Sequences, FiniteSets, TLC

(***************************************************************************)
(* Sizes.  The program's fixed capacities, scaled down.                    *)
(***************************************************************************)
\* rows of spectra and length of wind_power / sn_rates (100 in the program)
NRows == 2
\* extra bins by which the mass grid NPGRID (3000) exceeds the 100 rows
GridExtra == 1
\* time points of the substitute track table, TrackData.init(1, 100)
DummyPoints == 2
\* step_count, icount and the sink's log are tracked exactly up to this many
\* loop iterations and saturate there (the loop itself has no cap)
MaxSteps == 4
\* capacity of xponent (NMAXINT = 10 in the program); xmaslim holds one more
NMaxInt == 2

NPGRID == NRows + GridExtra

\* columns of spectra the model keeps: 0 = log L, 1 = log Teff, 2 = mass
NCols == 3

(***************************************************************************)
(* Small helpers.                                                          *)
(***************************************************************************)
Zeros(n) == [i \in 1..n |-> 0]

Min(a, b) == IF a < b THEN a ELSE b

RECURSIVE Pow(_, _)
Pow(b, e) == IF e <= 0 THEN 1 ELSE b * Pow(b, e - 1)

RECURSIVE SumSeq(_)
SumSeq(s) == IF s = <<>> THEN 0 ELSE Head(s) + SumSeq(Tail(s))

Range(s) == {s[i] : i \in DOMAIN s}

\* 100 * ln(n), rounded, for the mass limits the model uses (np.log)
Ln100(n) ==
    CASE n = 1 -> 0   [] n = 2 -> 69  [] n = 3 -> 110 [] n = 4 -> 139
      [] n = 5 -> 161 [] n = 6 -> 179 [] n = 7 -> 195 [] n = 8 -> 208
      [] OTHER -> 220

\* integer square root of a perfect square (masses of the model are squares)
ISqrt(m) == CHOOSE r \in 0..m : r * r <= m /\ (r + 1) * (r + 1) > m


(***************************************************************************)
(* State.                                                                  *)
(***************************************************************************)
VARIABLES
    pc,              \* position in run() / _main_calculation_loop()
    entry,           \* "none" | "run" (Starburst99.run) | "direct" (a caller
                     \* that sets the fields and calls the loop itself)
    params,          \* galaxy.model_params
    g,               \* scalar fields of GalaxyModel (isf, jtime, tbiv, io*, ...)
    imf,             \* self.imf: "unset" | "built"
    writer,          \* self.output_writer: "none" | "real" | "sink"
    tracks,          \* galaxy.tracks, a sequence of TrackData records
    clock0,          \* self.time and self.icount when the loop was entered
    cmass, dens, spectra, wavel,
    wind_power, sn_rates, sp_type_counts, element_yields,
    uv_lines, fuv_lines, hires_lines,
    time, icount, tvar, step_count,
    ran,             \* the operations of the current loop iteration, in order
    emits,           \* what the sink received: <<time, icount>> per timestep
    final_written,   \* the sink received write_final_output
    err,             \* the operation that raised, "" while none has
    lib,             \* the object a caller of the library classes holds
    res              \* the last call made on it, with what it returned

arrays == <<cmass, dens, spectra, wavel, wind_power, sn_rates, sp_type_counts,
            element_yields, uv_lines, fuv_lines, hires_lines>>
clock == <<time, icount, tvar, step_count>>
setup == <<entry, params, g, imf, writer, tracks, clock0>>
sinkv == <<emits, final_written>>
libv == <<lib, res>>
vars == <<pc, setup, arrays, clock, ran, sinkv, err, libv>>

(***************************************************************************)
(* ModelParameters and the fields of GalaxyModel.                          *)
(***************************************************************************)
\* the 15 output flags; outputs[i] becomes galaxy.io<i+1>
AllOn == [i \in 1..15 |-> 1]
AllOff == [i \in 1..15 |-> 0]

\* ModelParameters() as the input readers leave the fields they never set:
\* time_scale 0, time_step 1.0, initial_time 0.0, outputs all True
DefaultParams ==
    [sf_mode |-> 0, total_mass |-> 1, sf_rate |-> 1,
     num_intervals |-> 1, exponents |-> <<2>>, mass_limits |-> <<1, 4>>,
     sn_cutoff |-> 8, bh_cutoff |-> 120,
     initial_time |-> 0, time_scale |-> 0, time_step |-> 1,
     num_steps |-> 10, max_time |-> 2, outputs |-> AllOn]

\* GalaxyModel.__init__
GalaxyInit ==
    [isf |-> 0, toma |-> 1, sfr |-> 1, ninterv |-> 1,
     xponent |-> [i \in 1..NMaxInt |-> 2],
     xmaslim |-> [i \in 1..(NMaxInt + 1) |-> IF i = 1 THEN 1 ELSE IF i = 2 THEN 4 ELSE 0],
     sncut |-> 8, bhcut |-> 120,
     time1 |-> 0, jtime |-> 0, tbiv |-> 1, itbiv |-> 10, tmax |-> 2,
     jmg |-> 0, iwrt |-> 0, xmwr |-> 20, tstep |-> 0,
     io |-> AllOn]

\* the substitute table of _read_tracks: TrackData().init(1, 100), all zeros
ZeroRows(nm, np) == [m \in 1..nm |-> Zeros(np)]
TrackDataInit(nm, np) ==
    [num_masses |-> nm, num_points |-> np, init_mass |-> Zeros(nm),
     age |-> ZeroRows(nm, np), mass |-> ZeroRows(nm, np),
     log_lum |-> ZeroRows(nm, np), log_teff |-> ZeroRows(nm, np)]

\* a loaded two-mass table as the tests build one
SmallTable ==
    [num_masses |-> 2, num_points |-> 3, init_mass |-> <<4, 25>>,
     age |-> << <<0, 2, 4>>, <<0, 2, 4>> >>,
     mass |-> << <<4, 4, 4>>, <<25, 23, 21>> >>,
     log_lum |-> << <<2000, 2200, 2400>>, <<5000, 5200, 5400>> >>,
     log_teff |-> << <<3800, 3800, 3600>>, <<4600, 4400, 3600>> >>]

Init ==
    /\ pc = "start"
    /\ entry = "none"
    /\ params = DefaultParams
    /\ g = GalaxyInit
    /\ imf = "unset"
    /\ writer = "none"
    /\ tracks = <<>>
    /\ clock0 = [time |-> 0, icount |-> 1]
    /\ cmass = <<>> /\ dens = <<>> /\ spectra = <<>> /\ wavel = "none"
    /\ wind_power = <<>> /\ sn_rates = <<>> /\ sp_type_counts = <<>>
    /\ element_yields = 0 /\ uv_lines = 0 /\ fuv_lines = 0 /\ hires_lines = 0
    /\ time = 0 /\ icount = 1 /\ tvar = 0 /\ step_count = 0
    /\ ran = <<>>
    /\ emits = <<>> /\ final_written = FALSE
    /\ err = ""
    /\ lib = [kind |-> "none"]
    /\ res = [fn |-> "none"]


(***************************************************************************)
(* TrackData (core/galaxy_module.py).                                      *)
(***************************************************************************)
Abs(x) == IF x < 0 THEN -x ELSE x

\* get_mass_index: np.argmin(|init_mass - mass|), the first closest track
\* (1-based here)
get_mass_index(track, mass) ==
    CHOOSE k \in 1..track.num_masses :
        /\ \A j \in 1..track.num_masses :
              Abs(track.init_mass[k] - mass) <= Abs(track.init_mass[j] - mass)
        /\ \A j \in 1..(k - 1) :
              Abs(track.init_mass[j] - mass) > Abs(track.init_mass[k] - mass)

\* np.searchsorted(ages, t), side left, on a sorted row: the entries below t
searchsorted(ages, t) == Cardinality({k \in DOMAIN ages : ages[k] < t})

\* the 0-based idx of interpolate_in_time after its two clamps
BracketIndex(track, midx, t) ==
    LET idx == searchsorted(track.age[midx], t)
    IN  IF idx = 0 THEN 1
        ELSE IF idx >= track.num_points THEN track.num_points - 1
        ELSE idx

\* v0 + f * (v1 - v0) with f = (t - t0) / (t1 - t0) when t1 > t0, else f = 0
Lerp(t, t0, t1, v0, v1) ==
    IF t1 > t0 THEN v0 + ((t - t0) * (v1 - v0)) \div (t1 - t0) ELSE v0

\* interpolate_in_time: {} (ok = FALSE) when mass_idx >= num_masses, else the
\* interpolated mass, log_lum, log_teff; midx is 1-based
interpolate_in_time(track, midx, t) ==
    IF midx > track.num_masses
    THEN [ok |-> FALSE, mass |-> 0, log_lum |-> 0, log_teff |-> 0]
    ELSE LET idx == BracketIndex(track, midx, t)
             t0 == track.age[midx][idx]
             t1 == track.age[midx][idx + 1]
             At(arr) == Lerp(t, t0, t1, arr[midx][idx], arr[midx][idx + 1])
         IN  [ok |-> TRUE, mass |-> At(track.mass),
              log_lum |-> At(track.log_lum), log_teff |-> At(track.log_teff)]

(***************************************************************************)
(* The phases of one step (starburst_main.py).  Each operator gives the    *)
(* array after the phase.  A loop over range(len(cmass)) that indexes past *)
(* the end of an array raises IndexError there: Bad* is the set of such    *)
(* bins, and the writes of the bins before the first of them are kept.     *)
(***************************************************************************)
Least(S) == CHOOSE x \in S : \A y \in S : x <= y
\* the bins a loop reaches before it raises (all of them when none is bad)
Reached(n, bad) == IF bad = {} THEN 1..n ELSE 1..(Least(bad) - 1)

\* a term that leaves out the division by e + 1
DensTermUndivided(scale, e, lower, upper) ==
    IF e > -1
    THEN scale * 600 * (Pow(upper, e + 1) - Pow(lower, e + 1))
    ELSE IF e < -1
    THEN (scale * 600 * (Pow(lower, -(e + 1)) - Pow(upper, -(e + 1))))
            \div (Pow(upper, -(e + 1)) * Pow(lower, -(e + 1)))
    ELSE scale * 6 * (Ln100(upper) - Ln100(lower))

\* one interval's number of stars per unit scale:
\* (upper^(e+1) - lower^(e+1)) / (e+1), or log(upper/lower) when e = -1;
\* a negative power is the reciprocal of the positive one
DensTerm(scale, e, lower, upper) ==
    IF e > -1
    THEN (scale * 600 * (Pow(upper, e + 1) - Pow(lower, e + 1))) \div (e + 1)
    ELSE IF e < -1
    THEN (scale * 600 * (Pow(upper, -(e + 1)) - Pow(lower, -(e + 1))))
            \div (-(e + 1) * Pow(upper, -(e + 1)) * Pow(lower, -(e + 1)))
    ELSE scale * 6 * (Ln100(upper) - Ln100(lower))

\* a scale that treats a burst as continuous star formation
DensScaleContinuous(gal, tv) ==
    gal.sfr * (IF gal.jtime = 0 THEN gal.tbiv ELSE tv)

\* the scale of _density: sfr * dt (continuous) or toma * 1e6 (burst)
DensScale(gal, tv) ==
    IF gal.isf > 0
    THEN gal.sfr * (IF gal.jtime = 0 THEN gal.tbiv ELSE tv)
    ELSE gal.toma

BadDensity(gal, d) == {i \in 1..gal.ninterv : i > Len(d) \/ i > NMaxInt}

_density(gal, tv, d) ==
    LET upd == Reached(gal.ninterv, BadDensity(gal, d))
    IN  [i \in DOMAIN d |->
            IF i \in upd
            THEN DensTerm(DensScale(gal, tv), gal.xponent[i],
                          gal.xmaslim[i], gal.xmaslim[i + 1])
            ELSE d[i]]

\* the stellar state _starpara finds for grid bin i (tracks[0] only)
StarState(trk, cm, t, i) ==
    interpolate_in_time(trk[1], get_mass_index(trk[1], cm[i]), t)

BadStarpara(trk, cm, sp, t) ==
    IF trk = <<>> THEN {}
    ELSE {i \in DOMAIN cm : cm[i] > 0 /\ StarState(trk, cm, t, i).ok /\ i > Len(sp)}

_starpara(trk, cm, sp, t) ==
    IF trk = <<>> THEN sp
    ELSE LET upd == Reached(Len(cm), BadStarpara(trk, cm, sp, t))
         IN  [i \in DOMAIN sp |->
                IF i \in upd /\ i <= Len(cm) /\ cm[i] > 0 /\ StarState(trk, cm, t, i).ok
                THEN LET st == StarState(trk, cm, t, i)
                     IN  <<st.log_lum, st.log_teff, st.mass>>
                ELSE sp[i]]

\* the isochrone of _starpara_iso: the tabulated masses whose interpolated
\* mass is positive, in table order
RECURSIVE IsoPoints(_, _, _)
IsoPoints(track, t, k) ==
    IF k > track.num_masses THEN <<>>
    ELSE LET st == interpolate_in_time(track, k, t)
         IN  (IF st.ok /\ st.mass > 0
              THEN << <<st.log_lum, st.log_teff, st.mass>> >> ELSE <<>>)
             \o IsoPoints(track, t, k + 1)

\* spectra[:n, c] = iso raises ValueError when the n points do not fit
RaisesStarparaIso(trk, sp, t) ==
    /\ trk # <<>>
    /\ Len(IsoPoints(trk[1], t, 1)) > Len(sp)

_starpara_iso(trk, sp, t) ==
    IF trk = <<>> THEN sp
    ELSE LET iso == IsoPoints(trk[1], t, 1)
         IN  IF iso = <<>> \/ Len(iso) > Len(sp) THEN sp
             ELSE [i \in DOMAIN sp |-> IF i <= Len(iso) THEN iso[i] ELSE sp[i]]

BadTempAdjust(gal, cm, sp) ==
    IF gal.iwrt = 0 THEN {}
    ELSE {i \in DOMAIN cm : cm[i] >= gal.xmwr /\ i > Len(sp)}

\* a correction applied to every bin, whatever its mass
TempAdjustAllBins(gal, cm, sp) ==
    IF gal.iwrt = 0 THEN sp
    ELSE [i \in DOMAIN sp |->
            IF i <= Len(cm)
            THEN [sp[i] EXCEPT ![2] = (sp[i][2] * (10 + gal.iwrt)) \div 10]
            ELSE sp[i]]

\* spectra[i, 1] *= 1.0 + 0.1 * iwrt for the bins at or above xmwr
_temp_adjust(gal, cm, sp) ==
    IF gal.iwrt = 0 THEN sp
    ELSE LET upd == Reached(Len(cm), BadTempAdjust(gal, cm, sp))
         IN  [i \in DOMAIN sp |->
                IF i \in upd /\ i <= Len(cm) /\ cm[i] >= gal.xmwr
                THEN [sp[i] EXCEPT ![2] = (sp[i][2] * (10 + gal.iwrt)) \div 10]
                ELSE sp[i]]


(***************************************************************************)
(* The derived-quantity calculators.  uv_lines, fuv_lines, hires_lines and *)
(* element_yields are fixed profiles times one sum over the bins           *)
(* (uv_lines[j] = S * exp(-j), yields[0] = 0.1 * S, ...): the model keeps  *)
(* the sum S.                                                              *)
(***************************************************************************)
\* dens[i] is read for every bin of cmass
PastDens(cm, d) == {i \in DOMAIN cm : i > Len(d)}
\* bins whose dens is positive and that index past the end of arr
PastRows(cm, d, arr) == {i \in DOMAIN cm : i <= Len(d) /\ d[i] > 0 /\ i > Len(arr)}

BadWindpower(cm, d, wp) == PastDens(cm, d) \cup PastRows(cm, d, wp)

\* wind_power[i] = 0.5 * (1e-7 * cmass[i]^2) * 1000^2 * dens[i] where dens[i] > 0
_windpower(cm, d, wp) ==
    LET upd == Reached(Len(cm), BadWindpower(cm, d, wp))
    IN  [i \in DOMAIN wp |->
            IF i \in upd /\ i <= Len(cm) /\ d[i] > 0
            THEN cm[i] * cm[i] * d[i]
            ELSE wp[i]]

\* time > lifetime with lifetime = 1e10 * mass^(-2.5) yr and time in 10^6 yr
PastLifetime(mass, t) == t * Pow(ISqrt(mass), 5) > 10000

Explodes(gal, mass, t) ==
    gal.sncut <= mass /\ mass <= gal.bhcut /\ PastLifetime(mass, t)

BadSupernova(gal, cm, d, sn, t) ==
    {i \in DOMAIN cm : Explodes(gal, cm[i], t) /\ (i > Len(d) \/ i > Len(sn))}

\* sn_rates[i] = dens[i] / lifetime for the bins in the SN mass range
_supernova(gal, cm, d, sn, t) ==
    LET upd == Reached(Len(cm), BadSupernova(gal, cm, d, sn, t))
    IN  [i \in DOMAIN sn |->
            IF i \in upd /\ i <= Len(cm) /\ Explodes(gal, cm[i], t)
            THEN d[i] * Pow(ISqrt(cm[i]), 5)
            ELSE sn[i]]

\* the spectral classes O B A F G K M of _spectype
NSpBins == 7

\* the class of a bin from log Teff (10^-3 dex); Teff = 3000 K when log Teff <= 0.
\* 30000, 10000, 7500, 6000, 5200, 3700 K are 4477.1, 4000, 3875.1, 3778.2,
\* 3716.0, 3568.2 in 10^-3 dex
SpBin(logt) ==
    IF logt <= 0 THEN 6
    ELSE IF logt >= 4478 THEN 0
    ELSE IF logt > 4000 THEN 1
    ELSE IF logt >= 3876 THEN 2
    ELSE IF logt >= 3779 THEN 3
    ELSE IF logt >= 3717 THEN 4
    ELSE IF logt >= 3569 THEN 5
    ELSE 6

BadSpectype(cm, d, sp) == PastDens(cm, d) \cup PastRows(cm, d, sp)

\* a classification that counts a bin in its class and in every later one
SpectypeCumulative(cm, d, sp) ==
    [b \in 1..NSpBins |->
        LET Keep(i) == d[i] > 0 /\ SpBin(sp[i][2]) <= b - 1
            Dens(i) == d[i]
        IN  SumSeq([i \in 1..Len(cm) |-> IF Keep(i) THEN Dens(i) ELSE 0])]

\* sp_type_counts[:20] = sp_types, recomputed from zero
_spectype(cm, d, sp) ==
    [b \in 1..NSpBins |->
        LET Keep(i) == d[i] > 0 /\ SpBin(sp[i][2]) = b - 1
            Dens(i) == d[i]
        IN  SumSeq([i \in 1..Len(cm) |-> IF Keep(i) THEN Dens(i) ELSE 0])]

\* the sum behind element_yields: mass * dens over dens > 0 and mass > sncut
_nucleo(gal, cm, d) ==
    LET Keep(i) == d[i] > 0 /\ cm[i] > gal.sncut
        MassDens(i) == cm[i] * d[i]
    IN  SumSeq([i \in 1..Len(cm) |-> IF Keep(i) THEN MassDens(i) ELSE 0])

\* the composite spectrum of _specsyn: the sum of blackbody flux * dens over
\* the bins with dens > 0 and log Teff > 0.  The Planck weight of a bin is a
\* positive float the model does not compute; it is taken as 1, so an entry
\* of the spectrum is 0 exactly when no bin contributes.
Spectrum(cm, d, sp) ==
    LET Keep(i) == d[i] > 0 /\ sp[i][2] > 0
        Dens(i) == d[i]
    IN  SumSeq([i \in 1..Len(cm) |-> IF Keep(i) THEN Dens(i) ELSE 0])

BadSpecsyn(cm, d, sp) == PastDens(cm, d) \cup PastRows(cm, d, sp)

\* spectra[0, :len(spectrum)] = spectrum: row 0 of the array that also holds
\* the stellar state (columns 0..2 of every row)
_specsyn(cm, d, sp) ==
    LET f == Spectrum(cm, d, sp)
    IN  [i \in DOMAIN sp |-> IF i = 1 THEN [c \in 1..NCols |-> f] ELSE sp[i]]

\* the sum behind uv_lines: dens over dens > 0 and log Teff > 3.7
_linesyn(cm, d, sp) ==
    LET Keep(i) == d[i] > 0 /\ sp[i][2] > 3700
        Dens(i) == d[i]
    IN  SumSeq([i \in 1..Len(cm) |-> IF Keep(i) THEN Dens(i) ELSE 0])

\* the sum behind fuv_lines: dens over dens > 0 and log Teff > 4.0
_fusesyn(cm, d, sp) ==
    LET Keep(i) == d[i] > 0 /\ sp[i][2] > 4000
        Dens(i) == d[i]
    IN  SumSeq([i \in 1..Len(cm) |-> IF Keep(i) THEN Dens(i) ELSE 0])

\* the sum behind hires_lines: dens over dens > 0
_hires(cm, d) ==
    LET Keep(i) == d[i] > 0
        Dens(i) == d[i]
    IN  SumSeq([i \in 1..Len(cm) |-> IF Keep(i) THEN Dens(i) ELSE 0])

\* _hires reads dens only
BadHires(cm, d) == PastDens(cm, d)


(***************************************************************************)
(* IMF construction (models/imf.py) and _sync_parameters.                  *)
(***************************************************************************)
\* a validation that accepts mass limits in any order
ValidateWithoutOrder(intervals, exponents, mass_limits) ==
    /\ Len(exponents) = intervals
    /\ Len(mass_limits) = intervals + 1

\* a validation that accepts equal neighbouring mass limits
ValidateNonDecreasing(intervals, exponents, mass_limits) ==
    /\ Len(exponents) = intervals
    /\ Len(mass_limits) = intervals + 1
    /\ \A i \in 1..(Len(mass_limits) - 1) : mass_limits[i + 1] - mass_limits[i] >= 0

\* IMF._validate_parameters: TRUE when none of the three ValueErrors is raised
_validate_parameters(intervals, exponents, mass_limits) ==
    /\ Len(exponents) = intervals
    /\ Len(mass_limits) = intervals + 1
    /\ \A i \in 1..(Len(mass_limits) - 1) : mass_limits[i + 1] - mass_limits[i] > 0

\* _sync_parameters writes xponent[i] and xmaslim[i] past the fixed capacity
SyncRaises(p) ==
    \/ Min(p.num_intervals, Len(p.exponents)) > NMaxInt
    \/ Min(p.num_intervals + 1, Len(p.mass_limits)) > NMaxInt + 1

_sync_parameters(gal, p) ==
    [gal EXCEPT
        !.isf = p.sf_mode, !.toma = p.total_mass, !.sfr = p.sf_rate,
        !.ninterv = p.num_intervals,
        !.xponent = [i \in 1..NMaxInt |->
                        IF i <= Min(p.num_intervals, Len(p.exponents))
                        THEN p.exponents[i] ELSE gal.xponent[i]],
        !.xmaslim = [i \in 1..(NMaxInt + 1) |->
                        IF i <= Min(p.num_intervals + 1, Len(p.mass_limits))
                        THEN p.mass_limits[i] ELSE gal.xmaslim[i]],
        !.sncut = p.sn_cutoff, !.bhcut = p.bh_cutoff,
        !.time1 = p.initial_time, !.jtime = p.time_scale,
        !.tbiv = p.time_step, !.itbiv = p.num_steps, !.tmax = p.max_time,
        !.io = p.outputs]

(***************************************************************************)
(* Control: the statement order of run() and of one loop iteration.        *)
(***************************************************************************)
\* a run() that enters the loop before the IMF and the tracks exist
RunSeqLoopEarly ==
    <<"init_module", "read_input", "make_writer", "main_loop", "init_imf",
      "read_tracks", "read_atmosphere", "write_output", "cleanup", "done">>

\* run(): the calls inside its try block, in order
RunSeq ==
    <<"init_module", "read_input", "make_writer", "init_imf", "read_tracks",
      "read_atmosphere", "main_loop", "write_output", "cleanup", "done">>

IndexOf(seq, x) == CHOOSE k \in DOMAIN seq : seq[k] = x

RunNext(p) == RunSeq[IndexOf(RunSeq, p) + 1]

\* the nine calculators in dispatch order, each with the index of its io flag
CalcOrder ==
    <<"windpower", "supernova", "spectype", "nucleo", "specsyn",
      "linesyn", "fusesyn", "hires", "ifa_spectrum">>
Calcs == Range(CalcOrder)
CalcFlag(c) ==
    CASE c = "windpower" -> 4 [] c = "supernova" -> 5 [] c = "spectype" -> 6
      [] c = "nucleo" -> 7    [] c = "specsyn" -> 1   [] c = "linesyn" -> 8
      [] c = "fusesyn" -> 12  [] c = "hires" -> 9     [] c = "ifa_spectrum" -> 15

\* a loop body that dispatches the calculators before the population exists
LoopSeqCalcFirst ==
    <<"starpara", "starpara_iso", "temp_adjust">> \o CalcOrder
        \o <<"density", "output", "advance", "check">>

\* the body of the while loop, in statement order
LoopSeq ==
    <<"density", "starpara", "starpara_iso", "temp_adjust">> \o CalcOrder
        \o <<"output", "advance", "check">>

\* the condition under which the loop body executes a statement
Applies(gal, op) ==
    CASE op = "starpara" -> gal.jmg \in {0, 1}
      [] op = "starpara_iso" -> gal.jmg \notin {0, 1}
      [] op = "temp_adjust" -> gal.iwrt # 0
      [] op \in Calcs -> gal.io[CalcFlag(op)] >= 1
      [] OTHER -> TRUE

\* the first statement after position k that executes ("check" always does)
RECURSIVE FirstFrom(_, _)
FirstFrom(gal, k) ==
    IF Applies(gal, LoopSeq[k]) THEN LoopSeq[k] ELSE FirstFrom(gal, k + 1)

NextPc(gal, op) == FirstFrom(gal, IndexOf(LoopSeq, op) + 1)

\* counters are exact up to MaxSteps and stay there
Sat(n) == Min(n, MaxSteps + 1)

\* an exception leaves the loop: run() catches it and calls sys.exit(1), a
\* direct caller of the loop sees it raised
Raise(op) ==
    /\ pc' = IF entry = "run" THEN "exit1" ELSE "raised"
    /\ err' = op

\* the statement op of the loop body completed at the current clock time
Step(op) ==
    /\ pc' = NextPc(g, op)
    /\ ran' = Append(ran, [op |-> op, t |-> time])
    /\ err' = err


(***************************************************************************)
(* Inputs.                                                                 *)
(***************************************************************************)
\* IMF specifications an input file can carry: three valid ones, and one for
\* each way IMF._validate_parameters rejects
ValidIMFs ==
    { [num_intervals |-> 1, exponents |-> <<2>>, mass_limits |-> <<1, 4>>],
      [num_intervals |-> 1, exponents |-> <<-2>>, mass_limits |-> <<1, 4>>],
      [num_intervals |-> 2, exponents |-> <<-1, 1>>, mass_limits |-> <<1, 2, 4>>] }
InvalidIMFs ==
    { [num_intervals |-> 2, exponents |-> <<2>>, mass_limits |-> <<1, 2, 4>>],
      [num_intervals |-> 1, exponents |-> <<2>>, mass_limits |-> <<1, 2, 4>>],
      [num_intervals |-> 1, exponents |-> <<2>>, mass_limits |-> <<4, 1>>],
      [num_intervals |-> 2, exponents |-> <<2, 2>>, mass_limits |-> <<1, 4, 4>>] }

\* what InputParser.read_input can hand to run(): the readers set the
\* star-formation mode, the IMF and max_time, and leave the clock linear
RunParams ==
    { [DefaultParams EXCEPT !.sf_mode = sf, !.max_time = mt,
                            !.num_intervals = i.num_intervals,
                            !.exponents = i.exponents,
                            !.mass_limits = i.mass_limits] :
        sf \in {0, 1}, mt \in {0, 2}, i \in ValidIMFs \cup InvalidIMFs }

\* clocks a direct caller sets: jtime, tbiv, tmax, itbiv, time1, tstep and
\* the starting time and icount
LinearClocks ==
    { [jtime |-> 0, tbiv |-> tb, tmax |-> tm, itbiv |-> 10, time1 |-> 0,
       tstep |-> 0, t0 |-> t0, ic0 |-> ic] :
        tb \in {0, 1, 2}, tm \in {0, 2}, t0 \in {0, 1}, ic \in {0, 1} }
LogClocks ==
    { [jtime |-> 1, tbiv |-> 1, tmax |-> 4, itbiv |-> n, time1 |-> 1,
       tstep |-> ts, t0 |-> 0, ic0 |-> ic] :
        n \in {0, 1, 2, 3}, ts \in {0, 2}, ic \in {0, 1} }
\* three clocks under which the populations are explored
MainClocks ==
    { [jtime |-> 0, tbiv |-> 1, tmax |-> 2, itbiv |-> 10, time1 |-> 0,
       tstep |-> 0, t0 |-> 0, ic0 |-> 1],
      [jtime |-> 0, tbiv |-> 2, tmax |-> 4, itbiv |-> 10, time1 |-> 0,
       tstep |-> 0, t0 |-> 0, ic0 |-> 1],
      [jtime |-> 1, tbiv |-> 1, tmax |-> 4, itbiv |-> 3, time1 |-> 1,
       tstep |-> 2, t0 |-> 0, ic0 |-> 1] }

\* output-flag settings: all off, all on, and each calculator alone
OnlyCalc(c) == [i \in 1..15 |-> IF i = CalcFlag(c) THEN 1 ELSE 0]
IoChoices == {AllOff, AllOn} \cup {OnlyCalc(c) : c \in Calcs}

\* mass grids a direct caller sets: within the rows of spectra, with an empty
\* bin, and the full grid with a star in its last bin
Grids ==
    { <<4, 25>>, <<0, 16>>,
      [i \in 1..NPGRID |-> IF i = NPGRID THEN 25 ELSE 0] }

TrackChoices == { <<>>, <<TrackDataInit(1, DummyPoints)>>, <<SmallTable>> }

\* a population: star-formation mode, IMF, synthesis method, WR correction,
\* output flags, grid and track table
Populations ==
    [isf : {0, 1}, imf : ValidIMFs, jmg : {0, 2}, iwrt : {0, 1},
     io : IoChoices, grid : Grids, trk : TrackChoices]

DefaultPopulation ==
    [isf |-> 0, imf |-> CHOOSE i \in ValidIMFs : i.exponents = <<2>>,
     jmg |-> 0, iwrt |-> 0, io |-> AllOff, grid |-> <<4, 25>>,
     trk |-> <<SmallTable>>]

\* the settings a direct caller makes before calling the loop
Scenarios ==
    { [clk |-> c, pop |-> DefaultPopulation, w |-> w] :
        c \in LinearClocks \cup LogClocks, w \in {"none", "sink"} }
    \cup { [clk |-> c, pop |-> q, w |-> "sink"] : c \in MainClocks, q \in Populations }

\* every clock a direct caller sets, on a population that runs the
\* correction and all the calculators
ClockScenarios ==
    { [clk |-> c,
       pop |-> [DefaultPopulation EXCEPT !.io = AllOn, !.iwrt = 1, !.jmg = j],
       w |-> w] :
        c \in LinearClocks \cup LogClocks, j \in {0, 2}, w \in {"none", "sink"} }

\* GalaxyModel.init_module
InitModule ==
    /\ cmass' = Zeros(NPGRID)
    /\ dens' = Zeros(NPGRID)
    /\ wavel' = "zeros"
    /\ spectra' = [i \in 1..NRows |-> Zeros(NCols)]
    /\ wind_power' = Zeros(NRows)
    /\ sn_rates' = Zeros(NRows)
    /\ sp_type_counts' = Zeros(NSpBins)
    /\ element_yields' = 0 /\ uv_lines' = 0 /\ fuv_lines' = 0 /\ hires_lines' = 0

(***************************************************************************)
(* Entry.                                                                  *)
(***************************************************************************)
\* a caller that builds Starburst99(), calls galaxy.init_module(), sets the
\* grid, the tracks, the clock and the flags, and calls the loop (the tests)
DirectCall(sc) ==
    /\ pc = "start"
    /\ entry' = "direct"
    /\ g' = [g EXCEPT
                !.isf = sc.pop.isf, !.ninterv = sc.pop.imf.num_intervals,
                !.xponent = [i \in 1..NMaxInt |->
                                IF i <= Len(sc.pop.imf.exponents)
                                THEN sc.pop.imf.exponents[i] ELSE @[i]],
                !.xmaslim = [i \in 1..(NMaxInt + 1) |->
                                IF i <= Len(sc.pop.imf.mass_limits)
                                THEN sc.pop.imf.mass_limits[i] ELSE @[i]],
                !.jmg = sc.pop.jmg, !.iwrt = sc.pop.iwrt, !.io = sc.pop.io,
                !.jtime = sc.clk.jtime, !.tbiv = sc.clk.tbiv,
                !.tmax = sc.clk.tmax, !.itbiv = sc.clk.itbiv,
                !.time1 = sc.clk.time1, !.tstep = sc.clk.tstep]
    /\ writer' = sc.w
    /\ tracks' = sc.pop.trk
    /\ cmass' = sc.pop.grid
    /\ dens' = Zeros(Len(sc.pop.grid))
    /\ wavel' = "zeros"
    /\ spectra' = [i \in 1..NRows |-> Zeros(NCols)]
    /\ wind_power' = Zeros(NRows)
    /\ sn_rates' = Zeros(NRows)
    /\ sp_type_counts' = Zeros(NSpBins)
    /\ time' = sc.clk.t0
    /\ icount' = sc.clk.ic0
    /\ clock0' = [time |-> sc.clk.t0, icount |-> sc.clk.ic0]
    /\ pc' = "loop_top"
    /\ UNCHANGED <<params, imf, element_yields, uv_lines, fuv_lines, hires_lines,
                   tvar, step_count, ran, sinkv, err>>
    /\ UNCHANGED libv

Harness == pc = "start" /\ \E sc \in Scenarios : DirectCall(sc)

\* Starburst99.run is called
RunStart ==
    /\ pc = "start"
    /\ entry' = "run"
    /\ pc' = RunSeq[1]
    /\ UNCHANGED <<clock0, params, g, imf, writer, tracks, arrays, clock, ran, sinkv, err>>
    /\ UNCHANGED libv

(***************************************************************************)
(* run(): its statements before the loop.                                  *)
(***************************************************************************)
RunInitModule ==
    /\ pc = "init_module"
    /\ InitModule
    /\ pc' = RunNext(pc)
    /\ UNCHANGED <<setup, clock, ran, sinkv, err>>
    /\ UNCHANGED libv

\* read_input (FileNotFoundError when the input file is missing), then
\* _sync_parameters
RunReadInput ==
    /\ pc = "read_input"
    /\ \/ /\ Raise("read_input")
          /\ UNCHANGED <<params, g>>
       \/ \E p \in RunParams :
            /\ params' = p
            /\ IF SyncRaises(p)
               THEN Raise("read_input") /\ g' = g
               ELSE /\ g' = _sync_parameters(g, p)
                    /\ pc' = RunNext(pc)
                    /\ err' = err
    /\ UNCHANGED <<clock0, entry, imf, writer, tracks, arrays, clock, ran, sinkv>>
    /\ UNCHANGED libv

\* self.output_writer = OutputWriter(output_dir): the repository's class, or
\* a sink with the interface run() calls, installed in its place
RunMakeWriter ==
    /\ pc = "make_writer"
    /\ \E w \in {"real", "sink"} : writer' = w
    /\ pc' = RunNext(pc)
    /\ UNCHANGED <<clock0, entry, params, g, imf, tracks, arrays, clock, ran, sinkv, err>>
    /\ UNCHANGED libv

\* self.imf = IMF(num_intervals, exponents, mass_limits)
RunInitIMF ==
    /\ pc = "init_imf"
    /\ IF _validate_parameters(params.num_intervals, params.exponents,
                               params.mass_limits)
       THEN imf' = "built" /\ pc' = RunNext(pc) /\ err' = err
       ELSE imf' = imf /\ Raise("init_imf")
    /\ UNCHANGED <<clock0, entry, params, g, writer, tracks, arrays, clock, ran, sinkv>>
    /\ UNCHANGED libv

\* _read_tracks: FileNotFoundError ("missing") when neither the selected
\* track file nor the default one exists; otherwise the substitute table,
\* whether load_tracks succeeded ("loaded") or raised ("load_error")
RunReadTracks ==
    /\ pc = "read_tracks"
    /\ \E outcome \in {"missing", "loaded", "load_error"} :
        IF outcome = "missing"
        THEN tracks' = tracks /\ Raise("read_tracks")
        ELSE /\ tracks' = <<TrackDataInit(1, DummyPoints)>>
             /\ pc' = RunNext(pc)
             /\ err' = err
    /\ UNCHANGED <<clock0, entry, params, g, imf, writer, arrays, clock, ran, sinkv>>
    /\ UNCHANGED libv

\* _set_metallicity_string and _read_atmosphere_data: FileNotFoundError when
\* the atmosphere file is missing
RunReadAtmosphere ==
    /\ pc = "read_atmosphere"
    /\ \E found \in BOOLEAN :
        IF found THEN pc' = RunNext(pc) /\ err' = err
        ELSE Raise("read_atmosphere")
    /\ UNCHANGED <<setup, arrays, clock, ran, sinkv>>
    /\ UNCHANGED libv

\* self._main_calculation_loop() is called
RunMainLoop ==
    /\ pc = "main_loop"
    /\ pc' = "loop_top"
    /\ UNCHANGED <<setup, arrays, clock, ran, sinkv, err>>
    /\ UNCHANGED libv


(***************************************************************************)
(* _main_calculation_loop: one action per statement of the loop body.      *)
(***************************************************************************)
InLoop == Range(LoopSeq)

\* while continue_evolution: step_count += 1
LoopTop ==
    /\ pc = "loop_top"
    /\ step_count' = Min(step_count + 1, MaxSteps)
    /\ ran' = <<>>
    /\ pc' = FirstFrom(g, 1)
    /\ UNCHANGED <<setup, arrays, time, icount, tvar, sinkv, err>>
    /\ UNCHANGED libv

Density ==
    /\ pc = "density"
    /\ dens' = _density(g, tvar, dens)
    /\ IF BadDensity(g, dens) = {} THEN Step("density")
       ELSE Raise("density") /\ ran' = ran
    /\ UNCHANGED <<setup, cmass, spectra, wavel, wind_power, sn_rates,
                   sp_type_counts, element_yields, uv_lines, fuv_lines,
                   hires_lines, clock, sinkv>>
    /\ UNCHANGED libv

Starpara ==
    /\ pc = "starpara"
    /\ spectra' = _starpara(tracks, cmass, spectra, time)
    /\ IF BadStarpara(tracks, cmass, spectra, time) = {} THEN Step("starpara")
       ELSE Raise("starpara") /\ ran' = ran
    /\ UNCHANGED <<setup, cmass, dens, wavel, wind_power, sn_rates,
                   sp_type_counts, element_yields, uv_lines, fuv_lines,
                   hires_lines, clock, sinkv>>
    /\ UNCHANGED libv

StarparaIso ==
    /\ pc = "starpara_iso"
    /\ spectra' = _starpara_iso(tracks, spectra, time)
    /\ IF ~RaisesStarparaIso(tracks, spectra, time) THEN Step("starpara_iso")
       ELSE Raise("starpara_iso") /\ ran' = ran
    /\ UNCHANGED <<setup, cmass, dens, wavel, wind_power, sn_rates,
                   sp_type_counts, element_yields, uv_lines, fuv_lines,
                   hires_lines, clock, sinkv>>
    /\ UNCHANGED libv

TempAdjust ==
    /\ pc = "temp_adjust"
    /\ spectra' = _temp_adjust(g, cmass, spectra)
    /\ IF BadTempAdjust(g, cmass, spectra) = {} THEN Step("temp_adjust")
       ELSE Raise("temp_adjust") /\ ran' = ran
    /\ UNCHANGED <<setup, cmass, dens, wavel, wind_power, sn_rates,
                   sp_type_counts, element_yields, uv_lines, fuv_lines,
                   hires_lines, clock, sinkv>>
    /\ UNCHANGED libv

Windpower ==
    /\ pc = "windpower"
    /\ wind_power' = _windpower(cmass, dens, wind_power)
    /\ IF BadWindpower(cmass, dens, wind_power) = {} THEN Step("windpower")
       ELSE Raise("windpower") /\ ran' = ran
    /\ UNCHANGED <<setup, cmass, dens, spectra, wavel, sn_rates,
                   sp_type_counts, element_yields, uv_lines, fuv_lines,
                   hires_lines, clock, sinkv>>
    /\ UNCHANGED libv

Supernova ==
    /\ pc = "supernova"
    /\ sn_rates' = _supernova(g, cmass, dens, sn_rates, time)
    /\ IF BadSupernova(g, cmass, dens, sn_rates, time) = {} THEN Step("supernova")
       ELSE Raise("supernova") /\ ran' = ran
    /\ UNCHANGED <<setup, cmass, dens, spectra, wavel, wind_power,
                   sp_type_counts, element_yields, uv_lines, fuv_lines,
                   hires_lines, clock, sinkv>>
    /\ UNCHANGED libv

\* the calculators below build a local array and store it after their loop:
\* when the loop raises, nothing is stored
Spectype ==
    /\ pc = "spectype"
    /\ IF BadSpectype(cmass, dens, spectra) = {}
       THEN sp_type_counts' = _spectype(cmass, dens, spectra) /\ Step("spectype")
       ELSE sp_type_counts' = sp_type_counts /\ Raise("spectype") /\ ran' = ran
    /\ UNCHANGED <<setup, cmass, dens, spectra, wavel, wind_power, sn_rates,
                   element_yields, uv_lines, fuv_lines, hires_lines, clock, sinkv>>
    /\ UNCHANGED libv

Nucleo ==
    /\ pc = "nucleo"
    /\ IF PastDens(cmass, dens) = {}
       THEN element_yields' = _nucleo(g, cmass, dens) /\ Step("nucleo")
       ELSE element_yields' = element_yields /\ Raise("nucleo") /\ ran' = ran
    /\ UNCHANGED <<setup, cmass, dens, spectra, wavel, wind_power, sn_rates,
                   sp_type_counts, uv_lines, fuv_lines, hires_lines, clock, sinkv>>
    /\ UNCHANGED libv

Specsyn ==
    /\ pc = "specsyn"
    /\ IF BadSpecsyn(cmass, dens, spectra) = {}
       THEN /\ wavel' = "logspace"
            /\ spectra' = _specsyn(cmass, dens, spectra)
            /\ Step("specsyn")
       ELSE /\ UNCHANGED <<wavel, spectra>>
            /\ Raise("specsyn") /\ ran' = ran
    /\ UNCHANGED <<setup, cmass, dens, wind_power, sn_rates, sp_type_counts,
                   element_yields, uv_lines, fuv_lines, hires_lines, clock, sinkv>>
    /\ UNCHANGED libv

Linesyn ==
    /\ pc = "linesyn"
    /\ IF BadSpecsyn(cmass, dens, spectra) = {}
       THEN uv_lines' = _linesyn(cmass, dens, spectra) /\ Step("linesyn")
       ELSE uv_lines' = uv_lines /\ Raise("linesyn") /\ ran' = ran
    /\ UNCHANGED <<setup, cmass, dens, spectra, wavel, wind_power, sn_rates,
                   sp_type_counts, element_yields, fuv_lines, hires_lines,
                   clock, sinkv>>
    /\ UNCHANGED libv

Fusesyn ==
    /\ pc = "fusesyn"
    /\ IF BadSpecsyn(cmass, dens, spectra) = {}
       THEN fuv_lines' = _fusesyn(cmass, dens, spectra) /\ Step("fusesyn")
       ELSE fuv_lines' = fuv_lines /\ Raise("fusesyn") /\ ran' = ran
    /\ UNCHANGED <<setup, cmass, dens, spectra, wavel, wind_power, sn_rates,
                   sp_type_counts, element_yields, uv_lines, hires_lines,
                   clock, sinkv>>
    /\ UNCHANGED libv

Hires ==
    /\ pc = "hires"
    /\ IF BadHires(cmass, dens) = {}
       THEN hires_lines' = _hires(cmass, dens) /\ Step("hires")
       ELSE hires_lines' = hires_lines /\ Raise("hires") /\ ran' = ran
    /\ UNCHANGED <<setup, cmass, dens, spectra, wavel, wind_power, sn_rates,
                   sp_type_counts, element_yields, uv_lines, fuv_lines,
                   clock, sinkv>>
    /\ UNCHANGED libv

\* _ifa_spectrum calls _linesyn
IfaSpectrum ==
    /\ pc = "ifa_spectrum"
    /\ IF BadSpecsyn(cmass, dens, spectra) = {}
       THEN uv_lines' = _linesyn(cmass, dens, spectra) /\ Step("ifa_spectrum")
       ELSE uv_lines' = uv_lines /\ Raise("ifa_spectrum") /\ ran' = ran
    /\ UNCHANGED <<setup, cmass, dens, spectra, wavel, wind_power, sn_rates,
                   sp_type_counts, element_yields, fuv_lines, hires_lines,
                   clock, sinkv>>
    /\ UNCHANGED libv

\* _output(self.time, self.icount): nothing without a writer; OutputWriter
\* defines no write_timestep, so the call on it raises AttributeError; a sink
\* receives the time
Output ==
    /\ pc = "output"
    /\ CASE writer = "none" -> emits' = emits /\ Step("output")
         [] writer = "sink" ->
                /\ emits' = IF Len(emits) < MaxSteps THEN Append(emits, time)
                            ELSE emits
                /\ Step("output")
         [] writer = "real" -> emits' = emits /\ Raise("output") /\ ran' = ran
    /\ UNCHANGED <<setup, arrays, clock, final_written>>
    /\ UNCHANGED libv

\* linear: time += tbiv; logarithmic: tvar = time1 on the first step, else
\* tvar *= tstep, and time = tvar
Advance ==
    /\ pc = "advance"
    /\ IF g.jtime = 0
       THEN time' = time + g.tbiv /\ tvar' = tvar
       ELSE /\ tvar' = IF icount = 1 THEN g.time1 ELSE tvar * g.tstep
            /\ time' = tvar'
    /\ pc' = NextPc(g, "advance")
    /\ ran' = Append(ran, [op |-> "advance", t |-> time])
    /\ UNCHANGED <<setup, arrays, icount, step_count, sinkv, err>>
    /\ UNCHANGED libv

\* a termination test that allows one step more in logarithmic mode
ContinueOneMore(gal, t, ic) ==
    IF gal.jtime = 0 THEN ~(t > gal.tmax) ELSE ~(ic > gal.itbiv)

\* the termination test of the loop
continue_evolution(gal, t, ic) ==
    IF gal.jtime = 0 THEN ~(t > gal.tmax) ELSE ~(ic >= gal.itbiv)

\* the termination check, then icount += 1; the loop returns to run() or to
\* its direct caller
Check ==
    /\ pc = "check"
    /\ icount' = Sat(icount + 1)
    /\ pc' = IF continue_evolution(g, time, icount) THEN "loop_top"
             ELSE IF entry = "run" THEN RunNext("main_loop") ELSE "returned"
    /\ ran' = Append(ran, [op |-> "check", t |-> time])
    /\ UNCHANGED <<setup, arrays, time, tvar, step_count, sinkv, err>>
    /\ UNCHANGED libv

(***************************************************************************)
(* run(): after the loop.                                                  *)
(***************************************************************************)
\* _write_output: OutputWriter defines no write_final_output either
RunWriteOutput ==
    /\ pc = "write_output"
    /\ CASE writer = "sink" ->
                final_written' = TRUE /\ pc' = RunNext(pc) /\ err' = err
         [] writer = "real" ->
                final_written' = final_written /\ Raise("write_output")
         [] writer = "none" ->
                final_written' = final_written /\ pc' = RunNext(pc) /\ err' = err
    /\ UNCHANGED <<setup, arrays, clock, ran, emits>>
    /\ UNCHANGED libv

\* galaxy.cleanup_module(): the arrays and the tracks are dropped
RunCleanup ==
    /\ pc = "cleanup"
    /\ cmass' = <<>> /\ dens' = <<>> /\ spectra' = <<>> /\ wavel' = "none"
    /\ wind_power' = <<>> /\ sn_rates' = <<>> /\ sp_type_counts' = <<>>
    /\ element_yields' = 0 /\ uv_lines' = 0 /\ fuv_lines' = 0 /\ hires_lines' = 0
    /\ tracks' = <<>>
    /\ pc' = RunNext(pc)
    /\ UNCHANGED <<clock0, entry, params, g, imf, writer, clock, ran, sinkv, err>>
    /\ UNCHANGED libv

Next ==
    \/ Harness \/ RunStart
    \/ RunInitModule \/ RunReadInput \/ RunMakeWriter \/ RunInitIMF
    \/ RunReadTracks \/ RunReadAtmosphere \/ RunMainLoop
    \/ LoopTop \/ Density \/ Starpara \/ StarparaIso \/ TempAdjust
    \/ Windpower \/ Supernova \/ Spectype \/ Nucleo \/ Specsyn
    \/ Linesyn \/ Fusesyn \/ Hires \/ IfaSpectrum
    \/ Output \/ Advance \/ Check
    \/ RunWriteOutput \/ RunCleanup

Spec == Init /\ [][Next]_vars


(***************************************************************************)
(* Properties.                                                             *)
(***************************************************************************)
\* the statements the current iteration has completed so far
RanOps == {ran[i].op : i \in DOMAIN ran}

\* the place the design gives each statement inside one iteration
StageOf(op) ==
    CASE op = "density" -> 1
      [] op \in {"starpara", "starpara_iso"} -> 2
      [] op = "temp_adjust" -> 3
      [] op \in Calcs -> 4
      [] op = "output" -> 5
      [] op = "advance" -> 6
      [] op = "check" -> 7

\* C1: within one iteration the density phase (for every IMF interval) and
\* the stellar-parameter phase, and then the temperature correction when it
\* is enabled, have completed before any calculator runs; every enabled
\* calculator has completed before the output is written; and the output is
\* written before the clock advances.
C1_PhaseOrder ==
    /\ \A i, j \in DOMAIN ran :
            i < j => /\ StageOf(ran[i].op) <= StageOf(ran[j].op)
                     /\ ran[i].op # ran[j].op
    /\ (pc \in Calcs \/ RanOps \cap Calcs # {}) =>
            /\ "density" \in RanOps
            /\ RanOps \cap {"starpara", "starpara_iso"} # {}
            /\ g.iwrt # 0 => "temp_adjust" \in RanOps
    /\ pc \in Calcs \cup {"output"} => dens = _density(g, tvar, dens)
    /\ (pc = "output" \/ "output" \in RanOps) =>
            /\ \A c \in Calcs : g.io[CalcFlag(c)] >= 1 => c \in RanOps
    /\ (pc = "advance" \/ "advance" \in RanOps) => "output" \in RanOps

\* an iteration with the correction and every calculator enabled has reached
\* its output point on a populated grid
C1_Witness ==
    /\ pc = "output"
    /\ g.iwrt # 0
    /\ Calcs \subseteq RanOps
    /\ \E i \in DOMAIN dens : dens[i] > 0

\* the arrays that are not the output of calculator c (linesyn and
\* ifa_spectrum share uv_lines; the synthesised spectrum's own outputs are
\* the wavelength grid and the flux, not the stellar state of a bin)
OthersOutputs(c) ==
    <<IF c = "windpower" THEN 0 ELSE wind_power,
      IF c = "supernova" THEN 0 ELSE sn_rates,
      IF c = "spectype" THEN 0 ELSE sp_type_counts,
      IF c = "nucleo" THEN 0 ELSE element_yields,
      IF c = "specsyn" THEN 0 ELSE wavel,
      IF c \in {"linesyn", "ifa_spectrum"} THEN 0 ELSE uv_lines,
      IF c = "fusesyn" THEN 0 ELSE fuv_lines,
      IF c = "hires" THEN 0 ELSE hires_lines>>

\* C2: a calculator that completes leaves the mass grid, the star counts,
\* the stellar state spectra[i, 0..2] of every bin, the clock (time, icount)
\* and the outputs of the other calculators as they were.
C2_CalculatorsReadOnly ==
    [][\A c \in Calcs :
          (pc = c /\ pc' # c /\ err' = err) =>
              /\ cmass' = cmass
              /\ dens' = dens
              /\ spectra' = spectra
              /\ time' = time /\ icount' = icount
              /\ OthersOutputs(c)' = OthersOutputs(c)]_vars

\* _main_calculation_loop has returned normally
LoopExited ==
    \/ pc = "returned"
    \/ entry = "run" /\ pc \in {"write_output", "cleanup", "done"}
    \/ entry = "run" /\ pc = "exit1" /\ err = "write_output"

\* C3: with the linear clock, a step of 1 and max_time 2, an object whose
\* clock is as its constructor left it executes exactly two steps, evaluated
\* at time 1 and at time 2.
C3_LinearTwoSteps ==
    ( /\ LoopExited
      /\ g.jtime = 0 /\ g.tbiv = 1 /\ g.tmax = 2
      /\ clock0 = [time |-> 0, icount |-> 1]
      /\ writer = "sink" ) =>
        /\ step_count = 2
        /\ emits = <<1, 2>>

\* the ratio the design precomputes for the logarithmic clock: the r with
\* time1 * r^(itbiv-1) = tmax, when an integer one exists
HasRatio(gal) ==
    /\ gal.itbiv >= 2
    /\ \E r \in 1..gal.tmax : gal.time1 * Pow(r, gal.itbiv - 1) = gal.tmax
Ratio(gal) ==
    CHOOSE r \in 1..gal.tmax : gal.time1 * Pow(r, gal.itbiv - 1) = gal.tmax

\* C4: with the logarithmic clock the k-th step is evaluated at
\* time1 * ratio^(k-1), the ratio being the one that takes num_steps points
\* from initial_time to max_time.
C4_GeometricTimes ==
    ( /\ LoopExited
      /\ g.jtime = 1 /\ HasRatio(g)
      /\ clock0 = [time |-> 0, icount |-> 1]
      /\ writer = "sink" ) =>
        /\ Len(emits) = g.itbiv
        /\ \A k \in DOMAIN emits : emits[k] = g.time1 * Pow(Ratio(g), k - 1)

\* C5: a logarithmic run entered with icount = 1 and itbiv >= 1 executes
\* the loop body itbiv times and leaves icount = itbiv + 1.
C5_LogStepCount ==
    ( /\ LoopExited
      /\ g.jtime = 1
      /\ clock0.icount = 1
      /\ g.itbiv >= 1 /\ g.itbiv <= MaxSteps ) =>
        /\ step_count = g.itbiv
        /\ icount = g.itbiv + 1

\* a logarithmic run of three steps has returned
C5_Witness ==
    /\ pc = "returned"
    /\ g.jtime = 1 /\ g.itbiv = 3
    /\ clock0.icount = 1
    /\ step_count = 3 /\ icount = 4

\* the loop called directly under every clock
HarnessClocks == pc = "start" /\ \E sc \in ClockScenarios : DirectCall(sc)

NextLoop ==
    \/ HarnessClocks
    \/ LoopTop \/ Density \/ Starpara \/ StarparaIso \/ TempAdjust
    \/ Windpower \/ Supernova \/ Spectype \/ Nucleo \/ Specsyn
    \/ Linesyn \/ Fusesyn \/ Hires \/ IfaSpectrum
    \/ Output \/ Advance \/ Check

\* the interpreter keeps executing: a statement that can run does run
SpecFair == Init /\ [][NextLoop]_vars /\ WF_vars(NextLoop)

\* the run or the direct call is over
Terminal == {"done", "exit1", "returned", "raised"}

\* C6: the stepping loop terminates for every configuration: every call of
\* the loop eventually stops.
C6_LoopTerminates == <>(pc \in Terminal)

\* C7: each step whose computations complete hands its results to the
\* output sink exactly once, after the calculators and before the clock
\* advances, with the time at which the step's density was computed; when
\* the run is over the number of emits equals the number of steps.
C7_EmitOncePerStep ==
    ( /\ writer # "none"
      /\ err \in {"", "output", "write_output"}
      /\ step_count < MaxSteps ) =>
        /\ pc \in (InLoop \ {"advance", "check"}) =>
                Len(emits) = step_count - 1
        /\ pc = "advance" =>
                /\ Len(emits) = step_count
                /\ emits[Len(emits)] = ran[1].t
        /\ (LoopExited \/ pc \in Terminal) => Len(emits) = step_count

\* the design's lifecycle state of a position of the program
PhaseRank(p) ==
    CASE p \in {"start", "init_module", "read_input", "make_writer",
                "init_imf", "read_tracks", "read_atmosphere"} -> 0
      [] p = "main_loop" -> 1
      [] p \in InLoop \cup {"loop_top"} -> 2
      [] p \in {"write_output", "cleanup"} -> 3
      [] p \in Terminal -> 4

\* C8: run() passes once through Uninitialized, Initialized, Stepping,
\* Finalizing, Terminated: it never moves back, stepping begins only when
\* the IMF, the tracks and the grid are set up, the final output and the
\* cleanup come only after the loop has stopped, and nothing is executed
\* once the run has terminated.
C8_SinglePass ==
    [][entry' = "run" =>
          /\ PhaseRank(pc') >= PhaseRank(pc)
          /\ (PhaseRank(pc') = 2 /\ PhaseRank(pc) # 2) =>
                /\ pc = "main_loop"
                /\ imf = "built" /\ tracks # <<>> /\ cmass # <<>>
          /\ (PhaseRank(pc') = 3 /\ PhaseRank(pc) # 3) =>
                /\ pc = "check"
                /\ ~continue_evolution(g, time, icount)
          /\ (final_written' # final_written \/ (cmass' = <<>> /\ cmass # <<>>)) =>
                PhaseRank(pc) = 3
          /\ PhaseRank(pc) = 4 => step_count' = step_count /\ pc' = pc]_vars

\* a run that stepped, wrote its final output and cleaned up
C8_Witness ==
    /\ entry = "run" /\ pc = "done"
    /\ step_count >= 1 /\ final_written /\ cmass = <<>>

\* C9: run() is aborted only between steps: no error ends it after a step
\* has begun and before that step's emit and clock advance are done.
C9_NoAbortMidStep ==
    (entry = "run" /\ pc = "exit1") => err \notin InLoop

\* the IMF specification is invalid: a count mismatch or mass limits that do
\* not increase
InvalidIMFSpec(p) ==
    \/ Len(p.exponents) # p.num_intervals
    \/ Len(p.mass_limits) # p.num_intervals + 1
    \/ \E i \in 1..(Len(p.mass_limits) - 1) : p.mass_limits[i + 1] <= p.mass_limits[i]

\* C10: with an invalid IMF specification run() fails at the construction
\* of the IMF: it exits with status 1 without a step, an emit or a final
\* output.
C10_InvalidIMFAborts ==
    (entry = "run" /\ InvalidIMFSpec(params)) =>
        /\ pc \in {"make_writer", "init_imf", "exit1"}
        /\ pc = "exit1" => err = "init_imf"
        /\ step_count = 0 /\ emits = <<>> /\ ~final_written

\* run() has exited on the ValueError of an IMF with unordered mass limits
C10_Witness ==
    /\ entry = "run" /\ pc = "exit1" /\ err = "init_imf"
    /\ InvalidIMFSpec(params)
    /\ Len(params.exponents) = params.num_intervals
    /\ Len(params.mass_limits) = params.num_intervals + 1


(***************************************************************************)
(* The library classes called directly (models/imf.py).  A real result of  *)
(* integrate or xi is kept as 800 times its value; the masses are powers   *)
(* of two and the exponents small integers, so that every power and        *)
(* quotient the code takes is an integer here, and log(h / l) is the       *)
(* difference of the tabulated logarithms.                                 *)
(***************************************************************************)
\* segments of the largest IMF a caller builds
MaxSegments == 2
\* stars of the largest sample a caller asks for
MaxStars == 2

Max(a, b) == IF a > b THEN a ELSE b

LibExponents == {-1, 0, 1, 2}
LibMasses == {1, 2, 4, 8}

\* sequences over S of length lo..hi
SeqsOf(S, lo, hi) == UNION {[1..n -> S] : n \in lo..hi}

\* IMF._calculate_normalizations, times 600
_calculate_normalizations(intervals, exponents, mass_limits) ==
    [i \in 1..intervals |->
        IF exponents[i] # -1
        THEN (600 * (Pow(mass_limits[i + 1], exponents[i] + 1)
                     - Pow(mass_limits[i], exponents[i] + 1)))
                \div (exponents[i] + 1)
        ELSE 6 * (Ln100(mass_limits[i + 1]) - Ln100(mass_limits[i]))]

\* IMF.__init__: the object, or the ValueError of _validate_parameters
IMFNew(intervals, exponents, mass_limits) ==
    IF _validate_parameters(intervals, exponents, mass_limits)
    THEN [kind |-> "imf", intervals |-> intervals, exponents |-> exponents,
          mass_limits |-> mass_limits,
          normalizations |->
              _calculate_normalizations(intervals, exponents, mass_limits)]
    ELSE [kind |-> "imf_error", intervals |-> intervals,
          exponents |-> exponents, mass_limits |-> mass_limits]

\* 800 * m^p for an integer p of either sign
ScaledPow(m, p) == IF p >= 0 THEN 800 * Pow(m, p) ELSE 800 \div Pow(m, -p)

\* x / p for a non-zero integer p of either sign
DivBy(x, p) == IF p > 0 THEN x \div p ELSE (-x) \div (-p)

\* what integrate adds for one segment between int_low and int_high
IntegrateTerm(alpha, int_low, int_high) ==
    IF alpha # -1 /\ alpha # 1
    THEN DivBy(ScaledPow(int_high, 1 - alpha) - ScaledPow(int_low, 1 - alpha),
               1 - alpha)
    ELSE 8 * (Ln100(int_high) - Ln100(int_low))

\* an integrate that adds every overlapping segment whole
IntegrateWholeSegments(I, m_low, m_high) ==
    LET lo == Max(m_low, I.mass_limits[1])
        hi == Min(m_high, I.mass_limits[Len(I.mass_limits)])
    IN  IF lo >= hi THEN 0
        ELSE SumSeq([i \in 1..I.intervals |->
                IF Max(lo, I.mass_limits[i]) < Min(hi, I.mass_limits[i + 1])
                THEN IntegrateTerm(I.exponents[i], I.mass_limits[i],
                                   I.mass_limits[i + 1])
                ELSE 0])

\* IMF.integrate
integrate(I, m_low, m_high) ==
    LET lo == Max(m_low, I.mass_limits[1])
        hi == Min(m_high, I.mass_limits[Len(I.mass_limits)])
    IN  IF lo >= hi THEN 0
        ELSE SumSeq([i \in 1..I.intervals |->
                LET int_low == Max(lo, I.mass_limits[i])
                    int_high == Min(hi, I.mass_limits[i + 1])
                IN  IF int_low < int_high
                    THEN IntegrateTerm(I.exponents[i], int_low, int_high)
                    ELSE 0])

\* np.clip(x, lo, hi)
Clip(x, lo, hi) == Min(Max(x, lo), hi)

\* IMF.xi (the second definition of the class, which replaces the first);
\* hint is <<>> when interval is None and <<k>> for interval = k.  The value
\* is 800 times the real one; IndexError when the interval is no segment.
xi(I, mass, hint) ==
    LET last == I.mass_limits[Len(I.mass_limits)]
        interval == IF hint = <<>>
                    THEN Clip(searchsorted(I.mass_limits, mass) - 1,
                              0, I.intervals - 1)
                    ELSE hint[1]
    IN  IF hint = <<>> /\ (mass < I.mass_limits[1] \/ mass > last)
        THEN [raises |-> FALSE, value |-> 0]
        ELSE IF interval \notin 0..(I.intervals - 1)
        THEN [raises |-> TRUE, value |-> 0]
        ELSE LET alpha == I.exponents[interval + 1]
             IN  [raises |-> FALSE,
                  value |-> IF alpha = 1 THEN 800 \div mass
                            ELSE IF alpha # -1 THEN ScaledPow(mass, -alpha)
                            ELSE 800 \div mass]

\* the mass sample draws in a segment for u = k / 2: with alpha = 1 the
\* exponent 1 / (-alpha + 1) is 1 / 0.0 = inf and the mass is 1.0 ** inf
SampleMass(alpha, m_low, m_high, k) ==
    CASE alpha = -1 -> IF k = 0 THEN m_low ELSE ISqrt(m_low * m_high)
      [] alpha = 1 -> 1
      [] alpha = 0 -> m_low + (k * (m_high - m_low)) \div 2
      [] alpha = 2 -> (2 * m_low * m_high) \div (k * m_low + (2 - k) * m_high)

\* what np.random can draw for a sample of n_stars: a segment of positive
\* probability and u = 0 or u = 1/2 for each star
Draws(I, n_stars) ==
    IF I.intervals = 0 THEN {<<>>} ELSE
    [1..n_stars ->
        {d \in (0..(I.intervals - 1)) \X {0, 1} :
            integrate(I, I.mass_limits[d[1] + 1], I.mass_limits[d[1] + 2]) > 0}]

\* IMF.sample for the draws d; np.random.choice raises ValueError on an IMF
\* without segments
sample(I, n_stars, d) ==
    IF n_stars > 0 /\ I.intervals = 0
    THEN [raises |-> TRUE, masses |-> <<>>]
    ELSE [raises |-> FALSE,
          masses |-> [j \in 1..n_stars |->
                        SampleMass(I.exponents[d[j][1] + 1],
                                   I.mass_limits[d[j][1] + 1],
                                   I.mass_limits[d[j][1] + 2], d[j][2])]]

\* a caller builds an IMF
LibIMFNew ==
    /\ lib.kind = "none"
    /\ \E n \in 0..MaxSegments :
       \E ex \in SeqsOf(LibExponents, 0, MaxSegments) :
       \E ml \in SeqsOf(LibMasses, 1, MaxSegments + 1) :
            /\ lib' = IMFNew(n, ex, ml)
            /\ res' = [fn |-> "IMF"]
    /\ UNCHANGED <<pc, setup, arrays, clock, ran, sinkv, err>>

LibIntegrate ==
    /\ lib.kind = "imf"
    /\ \E a, b \in LibMasses :
            res' = [fn |-> "integrate", m_low |-> a, m_high |-> b,
                    out |-> integrate(lib, a, b)]
    /\ UNCHANGED <<pc, setup, arrays, clock, ran, sinkv, err, lib>>

LibXi ==
    /\ lib.kind = "imf"
    /\ \E m \in LibMasses :
       \E h \in {<<>>} \cup {<<k>> : k \in 0..(MaxSegments - 1)} :
            res' = [fn |-> "xi", mass |-> m, hint |-> h, out |-> xi(lib, m, h)]
    /\ UNCHANGED <<pc, setup, arrays, clock, ran, sinkv, err, lib>>

LibSample ==
    /\ lib.kind = "imf"
    /\ \E n \in 0..MaxStars :
       \E d \in Draws(lib, n) :
            res' = [fn |-> "sample", n_stars |-> n, out |-> sample(lib, n, d)]
    /\ UNCHANGED <<pc, setup, arrays, clock, ran, sinkv, err, lib>>


(***************************************************************************)
(* StellarTracks (models/stellar_tracks.py) and TrackData called directly. *)
(* Times are whole numbers and the tabulated values integers; a quotient   *)
(* is rounded down.                                                        *)
(***************************************************************************)
\* the largest age a caller asks for
MaxAge == 6

\* np.interp(x, xp, fp) on increasing xp: the end values outside the table
interp(x, xp, fp) ==
    IF x <= xp[1] THEN fp[1]
    ELSE IF x >= xp[Len(xp)] THEN fp[Len(fp)]
    ELSE LET j == CHOOSE k \in 1..(Len(xp) - 1) : xp[k] <= x /\ x < xp[k + 1]
         IN  fp[j] + ((x - xp[j]) * (fp[j + 1] - fp[j])) \div (xp[j + 1] - xp[j])

\* a lookup that reads the stellar type at the point before the one found
TypeBefore(track, t) ==
    track.stellar_type[Clip(searchsorted(track.time, t) - 1, 0,
                            Len(track.stellar_type) - 1) + 1]

\* the stellar type of a track at a time: searchsorted, clipped to the table
TypeAt(track, t) ==
    track.stellar_type[Clip(searchsorted(track.time, t), 0,
                            Len(track.stellar_type) - 1) + 1]

\* a choice of the track with the smaller weight
LowerTrackRecessive(m1, m2, mass) == 2 * (m2 - mass) < m2 - m1

\* w1 > 0.5 with w1 = (m2 - mass) / (m2 - m1): the lower track dominates
LowerTrackDominates(m1, m2, mass) == 2 * (m2 - mass) > m2 - m1

\* StellarTracks.interpolate_track on the loaded table T (masses ascending)
interpolate_track(T, mass, t) ==
    LET n == Len(T.masses)
        Single(track) ==
            [luminosity |-> interp(t, track.time, track.luminosity),
             temperature |-> interp(t, track.time, track.temperature),
             radius |-> interp(t, track.time, track.radius),
             mass_loss_rate |-> interp(t, track.time, track.mass_loss_rate),
             stellar_type |-> TypeAt(track, t)]
    IN  IF mass <= T.masses[1] THEN Single(T.data[1])
        ELSE IF mass >= T.masses[n] THEN Single(T.data[n])
        ELSE LET idx == searchsorted(T.masses, mass)
                 m1 == T.masses[idx]
                 m2 == T.masses[idx + 1]
                 track1 == T.data[idx]
                 track2 == T.data[idx + 1]
                 Mix(key) ==
                    ((m2 - mass) * interp(t, track1.time, track1[key])
                     + (mass - m1) * interp(t, track2.time, track2[key]))
                        \div (m2 - m1)
             IN  [luminosity |-> Mix("luminosity"),
                  temperature |-> Mix("temperature"),
                  radius |-> Mix("radius"),
                  mass_loss_rate |-> Mix("mass_loss_rate"),
                  stellar_type |-> IF LowerTrackDominates(m1, m2, mass)
                                   THEN TypeAt(track1, t)
                                   ELSE TypeAt(track2, t)]

\* track tables a metallicity file holds: three masses with their own time
\* grids, two masses on one uneven time grid, the table of an empty file,
\* and a single track
LibTables ==
    { [masses |-> <<4, 8, 16>>,
       data |-> << [time |-> <<1, 2, 4>>, luminosity |-> <<20, 24, 30>>,
                    temperature |-> <<38, 37, 35>>, radius |-> <<2, 3, 9>>,
                    mass_loss_rate |-> <<0, 1, 2>>, stellar_type |-> <<1, 1, 2>>],
                   [time |-> <<0, 2, 3, 5>>, luminosity |-> <<30, 32, 36, 40>>,
                    temperature |-> <<42, 41, 39, 36>>, radius |-> <<4, 5, 8, 20>>,
                    mass_loss_rate |-> <<1, 2, 4, 8>>, stellar_type |-> <<1, 2, 3, 4>>],
                   [time |-> <<1, 3>>, luminosity |-> <<44, 48>>,
                    temperature |-> <<45, 43>>, radius |-> <<6, 12>>,
                    mass_loss_rate |-> <<4, 10>>, stellar_type |-> <<1, 5>>] >>],
      [masses |-> <<4, 16>>,
       data |-> << [time |-> <<1, 2, 5>>, luminosity |-> <<30, 32, 35>>,
                    temperature |-> <<57, 56, 55>>, radius |-> <<10, 11, 12>>,
                    mass_loss_rate |-> <<1, 1, 2>>, stellar_type |-> <<1, 1, 2>>],
                   [time |-> <<1, 2, 5>>, luminosity |-> <<48, 50, 52>>,
                    temperature |-> <<200, 190, 180>>, radius |-> <<20, 22, 25>>,
                    mass_loss_rate |-> <<10, 20, 50>>, stellar_type |-> <<6, 7, 8>>] >>],
      [masses |-> <<2, 8, 32>>,
       data |-> << [time |-> <<1, 64>>, luminosity |-> <<10, 12>>,
                    temperature |-> <<40, 38>>, radius |-> <<1, 2>>,
                    mass_loss_rate |-> <<0, 1>>, stellar_type |-> <<1, 2>>],
                   [time |-> <<1, 16>>, luminosity |-> <<30, 34>>,
                    temperature |-> <<44, 40>>, radius |-> <<4, 9>>,
                    mass_loss_rate |-> <<1, 3>>, stellar_type |-> <<1, 3>>],
                   [time |-> <<1, 4>>, luminosity |-> <<50, 53>>,
                    temperature |-> <<46, 41>>, radius |-> <<9, 30>>,
                    mass_loss_rate |-> <<5, 9>>, stellar_type |-> <<1, 4>>] >>],
      [masses |-> <<>>, data |-> <<>>],
      [masses |-> <<8>>,
       data |-> << [time |-> <<2, 3, 4>>, luminosity |-> <<30, 33, 36>>,
                    temperature |-> <<42, 40, 38>>, radius |-> <<4, 6, 8>>,
                    mass_loss_rate |-> <<1, 3, 5>>, stellar_type |-> <<1, 2, 3>>] >>] }

\* TrackData tables a caller fills: the one of test_interpolate_in_time
\* (masses in tenths, log L in tenths), one that starts after age 0, and the
\* two-mass table of the loop, one whose ages are all equal, the all-zero
\* substitute table, and a TrackData() without arrays
LibTrackDatas ==
    { [num_masses |-> 2, num_points |-> 5, init_mass |-> <<0, 0>>,
       age |-> << <<0, 1, 2, 3, 4>>, <<0, 0, 0, 0, 0>> >>,
       mass |-> << <<100, 95, 90, 85, 80>>, <<0, 0, 0, 0, 0>> >>,
       log_lum |-> << <<20, 21, 22, 23, 24>>, <<0, 0, 0, 0, 0>> >>,
       log_teff |-> << <<0, 0, 0, 0, 0>>, <<0, 0, 0, 0, 0>> >>],
      [num_masses |-> 1, num_points |-> 3, init_mass |-> <<8>>,
       age |-> << <<2, 3, 5>> >>,
       mass |-> << <<80, 78, 70>> >>,
       log_lum |-> << <<30, 31, 35>> >>,
       log_teff |-> << <<42, 41, 39>> >>],
      [num_masses |-> 1, num_points |-> 3, init_mass |-> <<8>>,
       age |-> << <<1, 1, 1>> >>,
       mass |-> << <<100, 95, 90>> >>,
       log_lum |-> << <<20, 21, 22>> >>,
       log_teff |-> << <<40, 39, 38>> >>],
      TrackDataInit(1, DummyPoints),
      TrackDataInit(0, 0),
      SmallTable }

\* the exponent of a power of two; the logarithms of get_lifetime are taken
\* to the base 2 here, which leaves the interpolated lifetime the same
Log2(x) == CHOOSE k \in 0..16 : Pow(2, k) = x
IsPow2(x) == \E k \in 0..16 : Pow(2, k) = x

\* the final tabulated age of track k
FinalAge(T, k) == T.data[k].time[Len(T.data[k].time)]

\* a lifetime interpolated linearly in mass and age
GetLifetimeLinear(T, mass) ==
    LET n == Len(T.masses)
    IN  IF mass <= T.masses[1] THEN FinalAge(T, 1)
        ELSE IF mass >= T.masses[n] THEN FinalAge(T, n)
        ELSE LET idx == searchsorted(T.masses, mass)
             IN  interp(mass, <<T.masses[idx], T.masses[idx + 1]>>,
                        <<FinalAge(T, idx), FinalAge(T, idx + 1)>>)

\* StellarTracks.get_lifetime: 10 ** np.interp(log mass, log [m1, m2],
\* log [life1, life2]) between two tracks
get_lifetime(T, mass) ==
    LET n == Len(T.masses)
    IN  IF mass <= T.masses[1] THEN FinalAge(T, 1)
        ELSE IF mass >= T.masses[n] THEN FinalAge(T, n)
        ELSE LET idx == searchsorted(T.masses, mass)
                 m1 == T.masses[idx]
                 m2 == T.masses[idx + 1]
                 life1 == FinalAge(T, idx)
                 life2 == FinalAge(T, idx + 1)
                 log_life == interp(Log2(mass), <<Log2(m1), Log2(m2)>>,
                                    <<Log2(life1), Log2(life2)>>)
             IN  Pow(2, log_life)

\* masses[0] on a table without tracks: IndexError
EmptyTable(T) == Len(T.masses) = 0

\* a caller loads a track table into StellarTracks
LibLoadTracks ==
    /\ lib.kind = "none"
    /\ \E T \in LibTables :
            lib' = [kind |-> "tracks", masses |-> T.masses, data |-> T.data]
    /\ res' = [fn |-> "load_tracks"]
    /\ UNCHANGED <<pc, setup, arrays, clock, ran, sinkv, err>>

LibInterpolateTrack ==
    /\ lib.kind = "tracks"
    /\ \E m \in {2, 4, 5, 6, 8, 12, 14, 16, 20} :
       \E t \in 0..MaxAge :
            res' = [fn |-> "interpolate_track", mass |-> m, time |-> t,
                    raises |-> EmptyTable(lib),
                    out |-> IF EmptyTable(lib) THEN <<>>
                            ELSE interpolate_track(lib, m, t)]
    /\ UNCHANGED <<pc, setup, arrays, clock, ran, sinkv, err, lib>>

\* get_lifetime on a table whose masses and final ages are powers of two,
\* at a mass that is one
LibGetLifetime ==
    /\ lib.kind = "tracks"
    /\ \A k \in DOMAIN lib.masses :
            IsPow2(lib.masses[k]) /\ IsPow2(FinalAge(lib, k))
    /\ \E m \in {1, 2, 4, 8, 16, 32, 64} :
            res' = [fn |-> "get_lifetime", mass |-> m,
                    raises |-> EmptyTable(lib),
                    out |-> IF EmptyTable(lib) THEN 0 ELSE get_lifetime(lib, m)]
    /\ UNCHANGED <<pc, setup, arrays, clock, ran, sinkv, err, lib>>

\* a caller builds and fills a TrackData
LibTrackDataNew ==
    /\ lib.kind = "none"
    /\ \E td \in LibTrackDatas : lib' = [kind |-> "trackdata", data |-> td]
    /\ res' = [fn |-> "TrackData"]
    /\ UNCHANGED <<pc, setup, arrays, clock, ran, sinkv, err>>

LibInterpolateInTime ==
    /\ lib.kind = "trackdata"
    /\ \E midx \in 1..(lib.data.num_masses + 1) :
       \E t \in 0..MaxAge :
            res' = [fn |-> "interpolate_in_time", mass_idx |-> midx, time |-> t,
                    out |-> interpolate_in_time(lib.data, midx, t)]
    /\ UNCHANGED <<pc, setup, arrays, clock, ran, sinkv, err, lib>>

\* an interpolation that returns the midpoint when the x-values coincide
FlinMidpoint(x, x1, x2, y1, y2) ==
    IF x2 = x1 THEN (y1 + y2) \div 2
    ELSE y1 + ((y2 - y1) * (x - x1)) \div (x2 - x1)

\* flin: y1 when |x2 - x1| is below the machine epsilon, else the line
\* through the two points
flin(x, x1, x2, y1, y2) ==
    IF x2 = x1 THEN y1
    ELSE y1 + ((y2 - y1) * (x - x1)) \div (x2 - x1)

\* a caller of the module galaxy_module, holding no object, interpolates
\* with its function flin
LibFlin ==
    /\ lib.kind = "none"
    /\ \E x, x1, x2 \in 0..2 :
       \E y1, y2 \in {10, 20} :
            res' = [fn |-> "flin", x |-> x, x1 |-> x1, x2 |-> x2,
                    y1 |-> y1, y2 |-> y2, out |-> flin(x, x1, x2, y1, y2)]
    /\ lib' = [kind |-> "module"]
    /\ UNCHANGED <<pc, setup, arrays, clock, ran, sinkv, err>>

NextLib ==
    \/ LibIMFNew \/ LibIntegrate \/ LibXi \/ LibSample
    \/ LibLoadTracks \/ LibInterpolateTrack \/ LibGetLifetime
    \/ LibTrackDataNew \/ LibInterpolateInTime \/ LibFlin

\* the IMF, StellarTracks and TrackData classes used on their own
SpecLib == Init /\ [][NextLib]_vars


(***************************************************************************)
(* Properties of the library classes.                                      *)
(***************************************************************************)
\* the arguments of an IMF construction name a malformed IMF
MalformedIMF(intervals, exponents, mass_limits) ==
    \/ Len(exponents) # intervals
    \/ Len(mass_limits) # intervals + 1
    \/ \E i \in 1..(Len(mass_limits) - 1) : mass_limits[i + 1] <= mass_limits[i]

\* C11: constructing an IMF raises exactly when the number of exponents is
\* not the number of intervals, or the number of mass limits is not the
\* number of intervals plus one, or the mass limits are not strictly
\* increasing; otherwise it succeeds with one normalization constant per
\* segment.
C11_IMFConstruction ==
    lib.kind \in {"imf", "imf_error"} =>
        /\ lib.kind = "imf_error"
              <=> MalformedIMF(lib.intervals, lib.exponents, lib.mass_limits)
        /\ lib.kind = "imf" => Len(lib.normalizations) = lib.intervals

\* a construction with the right counts and two equal mass limits has raised
C11_Witness ==
    /\ lib.kind = "imf_error"
    /\ lib.intervals = 2
    /\ Len(lib.exponents) = 2 /\ Len(lib.mass_limits) = 3
    /\ lib.mass_limits[1] < lib.mass_limits[2]
    /\ lib.mass_limits[2] = lib.mass_limits[3]

\* C12: a track file that is missing or cannot be read never aborts the
\* run: _read_tracks raises nothing, and the run goes on with exactly one
\* dummy TrackData as its tracks.
C12_TrackFailureContinues ==
    entry = "run" =>
        /\ err # "read_tracks"
        /\ tracks # <<>> => tracks = <<TrackDataInit(1, DummyPoints)>>

\* C13: in instantaneous-burst mode (isf <= 0) the density is fixed by the
\* first step: once the first step has computed it, no statement of a later
\* step changes any entry of the density array, whatever the clock mode and
\* the current time.
C13_BurstDensityFixed ==
    [][(/\ g.isf <= 0
        /\ entry # "none"
        /\ step_count >= 1
        /\ pc \in InLoop \cup {"loop_top"}
        /\ pc = "density" => step_count >= 2)
            => dens' = dens]_vars

\* a burst on the logarithmic clock has recomputed a non-zero density in a
\* later step, at a later time
C13_Witness ==
    /\ g.isf <= 0 /\ g.jtime = 1
    /\ step_count >= 2 /\ pc = "starpara"
    /\ tvar > 0
    /\ \E i \in DOMAIN dens : dens[i] > 0

\* the calculators entered so far in the current iteration: those the
\* dispatch called, and _linesyn when _ifa_spectrum called it
Invoked(c) ==
    \/ c \in RanOps
    \/ c = "linesyn" /\ "ifa_spectrum" \in RanOps

\* C14: when the dispatch of a step is over, a calculator has been invoked
\* in that step if and only if its own io flag is >= 1, whatever the other
\* flags are.
C14_CalculatorIffFlag ==
    pc = "output" =>
        \A c \in Calcs : Invoked(c) <=> g.io[CalcFlag(c)] >= 1

\* C15: IMF.integrate is additive: for a <= b <= c the integral from a to c
\* is the sum of the integrals from a to b and from b to c, and the integral
\* over the whole mass domain is the sum of the integrals over the segments.
C15_IntegrateAdditive ==
    res.fn = "integrate" =>
        /\ \A b \in LibMasses :
              (res.m_low <= b /\ b <= res.m_high) =>
                  res.out = integrate(lib, res.m_low, b)
                            + integrate(lib, b, res.m_high)
        /\ (/\ res.m_low = lib.mass_limits[1]
            /\ res.m_high = lib.mass_limits[Len(lib.mass_limits)]) =>
              res.out = SumSeq([i \in 1..lib.intervals |->
                            integrate(lib, lib.mass_limits[i],
                                      lib.mass_limits[i + 1])])

\* integrate was called across the two segments of an IMF with different
\* exponents, with a mass inside the second segment to split it at
C15_Witness ==
    /\ res.fn = "integrate"
    /\ lib.intervals = 2
    /\ lib.exponents[1] # lib.exponents[2]
    /\ res.m_low < lib.mass_limits[2] /\ lib.mass_limits[2] < res.m_high
    /\ \E b \in LibMasses :
            /\ lib.mass_limits[2] < b /\ b < res.m_high
            /\ b < lib.mass_limits[3]
    /\ res.out > 0

\* C16: for a mass outside [mass_limits[0], mass_limits[-1]] IMF.xi returns
\* 0 and raises nothing, whether the interval hint is absent or names a
\* segment of the IMF.
C16_XiZeroOutside ==
    (/\ res.fn = "xi"
     /\ res.hint = <<>> \/ res.hint[1] < lib.intervals
     /\ \/ res.mass < lib.mass_limits[1]
        \/ res.mass > lib.mass_limits[Len(lib.mass_limits)]) =>
        ~res.out.raises /\ res.out.value = 0

\* C17: for an IMF of at least one segment, whatever its exponents,
\* IMF.sample(n) raises nothing and returns exactly n masses, each inside
\* [mass_limits[0], mass_limits[-1]].
C17_SampleInDomain ==
    (res.fn = "sample" /\ lib.intervals >= 1) =>
        /\ ~res.out.raises
        /\ Len(res.out.masses) = res.n_stars
        /\ \A j \in 1..Len(res.out.masses) :
              /\ lib.mass_limits[1] <= res.out.masses[j]
              /\ res.out.masses[j] <= lib.mass_limits[Len(lib.mass_limits)]

\* row j of a track, as interpolate_track reports a point
TrackRow(track, j) ==
    [luminosity |-> track.luminosity[j], temperature |-> track.temperature[j],
     radius |-> track.radius[j], mass_loss_rate |-> track.mass_loss_rate[j],
     stellar_type |-> track.stellar_type[j]]

\* C18: interpolate_track at a tabulated mass (lowest, highest or between)
\* and a tabulated age of that mass's track returns exactly that row's
\* luminosity, temperature, radius, mass-loss rate and stellar type.
C18_TabulatedRoundTrip ==
    res.fn = "interpolate_track" =>
        \A k \in DOMAIN lib.masses :
            \A j \in DOMAIN lib.data[k].time :
                (res.mass = lib.masses[k] /\ res.time = lib.data[k].time[j])
                    => res.out = TrackRow(lib.data[k], j)

\* the call was made at a mass between the lowest and the highest track and
\* at an age inside its table where the track below has another value
C18_Witness ==
    /\ res.fn = "interpolate_track"
    /\ Len(lib.masses) = 3 /\ res.mass = lib.masses[2]
    /\ res.time = lib.data[2].time[2]
    /\ interp(res.time, lib.data[1].time, lib.data[1].luminosity)
          # res.out.luminosity
    /\ res.out.stellar_type = lib.data[2].stellar_type[2]

\* C19: for an age below the first tabulated age of a track, both
\* StellarTracks.interpolate_track (at a tabulated mass) and
\* TrackData.interpolate_in_time return the values of the first tabulated
\* point unchanged.
C19_NoExtrapolationBelow ==
    /\ res.fn = "interpolate_track" =>
          \A k \in DOMAIN lib.masses :
              (res.mass = lib.masses[k] /\ res.time < lib.data[k].time[1])
                  => res.out = TrackRow(lib.data[k], 1)
    /\ (/\ res.fn = "interpolate_in_time"
        /\ res.out.ok
        /\ res.time < lib.data.age[res.mass_idx][1]) =>
          /\ res.out.mass = lib.data.mass[res.mass_idx][1]
          /\ res.out.log_lum = lib.data.log_lum[res.mass_idx][1]
          /\ res.out.log_teff = lib.data.log_teff[res.mass_idx][1]

\* the line through the last two points of a table, at t
ExtrapolateLast(t, xs, ys) ==
    LET n == Len(xs)
    IN  ys[n - 1] + ((t - xs[n - 1]) * (ys[n] - ys[n - 1])) \div (xs[n] - xs[n - 1])

\* C20: for an age above the last tabulated age of a track, both
\* TrackData.interpolate_in_time and StellarTracks.interpolate_track (at a
\* tabulated mass) return the linear extrapolation from the last two
\* tabulated points (of distinct ages).
C20_ExtrapolationAbove ==
    /\ (/\ res.fn = "interpolate_in_time"
        /\ res.out.ok
        /\ lib.data.age[res.mass_idx][lib.data.num_points]
              > lib.data.age[res.mass_idx][lib.data.num_points - 1]
        /\ res.time > lib.data.age[res.mass_idx][lib.data.num_points]) =>
          LET ages == lib.data.age[res.mass_idx]
          IN  /\ res.out.mass
                    = ExtrapolateLast(res.time, ages, lib.data.mass[res.mass_idx])
              /\ res.out.log_lum
                    = ExtrapolateLast(res.time, ages, lib.data.log_lum[res.mass_idx])
              /\ res.out.log_teff
                    = ExtrapolateLast(res.time, ages, lib.data.log_teff[res.mass_idx])
    /\ res.fn = "interpolate_track" =>
          \A k \in DOMAIN lib.masses :
              LET track == lib.data[k]
              IN  (/\ res.mass = lib.masses[k]
                   /\ res.time > track.time[Len(track.time)]) =>
                      /\ res.out.luminosity
                            = ExtrapolateLast(res.time, track.time, track.luminosity)
                      /\ res.out.temperature
                            = ExtrapolateLast(res.time, track.time, track.temperature)
                      /\ res.out.radius
                            = ExtrapolateLast(res.time, track.time, track.radius)
                      /\ res.out.mass_loss_rate
                            = ExtrapolateLast(res.time, track.time, track.mass_loss_rate)

\* C21: for a mass strictly between two tabulated masses the stellar_type
\* of interpolate_track is one entry of the stellar_type column of the
\* bracketing track with the larger weight: the lower track when w1 > 0.5,
\* otherwise the upper one.
C21_TypeFromDominantTrack ==
    res.fn = "interpolate_track" =>
        \A k \in 1..(Len(lib.masses) - 1) :
            (lib.masses[k] < res.mass /\ res.mass < lib.masses[k + 1]) =>
                LET w1x2 == (2 * (lib.masses[k + 1] - res.mass))
                    span == lib.masses[k + 1] - lib.masses[k]
                    dominant == IF w1x2 > span THEN lib.data[k]
                                ELSE lib.data[k + 1]
                IN  \E j \in DOMAIN dominant.stellar_type :
                        res.out.stellar_type = dominant.stellar_type[j]

\* a mass nearer the upper of two tracks that share no stellar type was
\* queried
C21_Witness ==
    /\ res.fn = "interpolate_track"
    /\ Len(lib.masses) = 2
    /\ lib.masses[1] < res.mass /\ res.mass < lib.masses[2]
    /\ 2 * (lib.masses[2] - res.mass) < lib.masses[2] - lib.masses[1]
    /\ \A i \in DOMAIN lib.data[1].stellar_type :
            lib.data[1].stellar_type[i] # res.out.stellar_type
    /\ res.time > lib.data[2].time[1]

\* |a - b|
Distance(a, b) == IF a < b THEN b - a ELSE a - b

\* C22: the stellar_type of interpolate_track (here at a tabulated mass, so
\* that the track is known) is read from a row whose tabulated age is
\* nearest to the queried age.
C22_TypeAtNearestAge ==
    res.fn = "interpolate_track" =>
        \A k \in DOMAIN lib.masses :
            res.mass = lib.masses[k] =>
                LET track == lib.data[k]
                IN  \E j \in DOMAIN track.time :
                        /\ res.out.stellar_type = track.stellar_type[j]
                        /\ \A i \in DOMAIN track.time :
                              Distance(track.time[j], res.time)
                                  <= Distance(track.time[i], res.time)

\* C23: querying an empty table never raises: interpolate_track on a
\* loaded table without tracks raises nothing, and interpolate_in_time on a
\* TrackData without arrays or with a mass index past its tracks returns the
\* absent result.
C23_EmptyTableNoRaise ==
    /\ (res.fn = "interpolate_track" /\ lib.masses = <<>>) => ~res.raises
    /\ (/\ res.fn = "interpolate_in_time"
        /\ res.mass_idx > lib.data.num_masses) => ~res.out.ok

\* C24: get_lifetime returns the final tabulated age of the lowest track at
\* or below the smallest tabulated mass, of the highest track at or above
\* the largest, the track's own final age at a tabulated mass, and between
\* two adjacent tracks a value between their final ages, which is the
\* geometric mean of the two lifetimes at the geometric mean of the masses.
C24_Lifetime ==
    (res.fn = "get_lifetime" /\ ~res.raises) =>
        LET n == Len(lib.masses)
        IN  /\ res.mass <= lib.masses[1] => res.out = FinalAge(lib, 1)
            /\ res.mass >= lib.masses[n] => res.out = FinalAge(lib, n)
            /\ \A k \in 1..n :
                  res.mass = lib.masses[k] => res.out = FinalAge(lib, k)
            /\ \A k \in 1..(n - 1) :
                  (lib.masses[k] < res.mass /\ res.mass < lib.masses[k + 1]) =>
                      LET life1 == FinalAge(lib, k)
                          life2 == FinalAge(lib, k + 1)
                      IN  /\ Min(life1, life2) <= res.out
                          /\ res.out <= Max(life1, life2)
                          /\ res.mass * res.mass
                                = lib.masses[k] * lib.masses[k + 1]
                              => res.out * res.out = life1 * life2

\* the lifetime was asked at the geometric mean of two adjacent tabulated
\* masses whose tracks end at different ages
C24_Witness ==
    /\ res.fn = "get_lifetime" /\ ~res.raises
    /\ \E k \in 1..(Len(lib.masses) - 1) :
          /\ lib.masses[k] < res.mass /\ res.mass < lib.masses[k + 1]
          /\ res.mass * res.mass = lib.masses[k] * lib.masses[k + 1]
          /\ FinalAge(lib, k) # FinalAge(lib, k + 1)

C26_NormalizationIsIntegral ==
    lib.kind = "imf" =>
        \A i \in 1..lib.intervals :
            4 * lib.normalizations[i]
                = 3 * integrate(lib, lib.mass_limits[i], lib.mass_limits[i + 1])

\* C27: _temp_adjust changes only the temperature entry of the bins whose
\* mass is at or above xmwr: the temperature of every other bin, every
\* luminosity and mass entry, the density array and the mass grid stay as
\* they were; with iwrt = 0 the correction is not made at all.
C27_TempAdjustFrame ==
    [][pc = "temp_adjust" =>
        /\ g.iwrt # 0
        /\ DOMAIN spectra' = DOMAIN spectra
        /\ \A i \in DOMAIN spectra :
              /\ spectra'[i][1] = spectra[i][1]
              /\ spectra'[i][3] = spectra[i][3]
              /\ (i > Len(cmass) \/ cmass[i] < g.xmwr)
                    => spectra'[i][2] = spectra[i][2]
        /\ dens' = dens /\ cmass' = cmass]_vars

\* the correction has been made in a step with a bin above the threshold,
\* now at 11/10 of the track's temperature, and a bin with stars below it
C27_Witness ==
    /\ "temp_adjust" \in RanOps /\ g.iwrt = 1
    /\ tracks # <<>>
    /\ \E i, k \in DOMAIN cmass :
          /\ i <= Len(spectra) /\ k <= Len(spectra)
          /\ cmass[i] >= g.xmwr /\ cmass[k] > 0 /\ cmass[k] < g.xmwr
          /\ spectra[i][2] > 0 /\ spectra[k][2] > 0
          /\ spectra[i][2] = (StarState(tracks, cmass, time, i).log_teff * 11) \div 10
          /\ spectra[k][2] = StarState(tracks, cmass, time, k).log_teff

\* C28: interpolation between two points of equal x never divides by zero:
\* flin returns y1 when x1 = x2, and interpolate_in_time returns the values
\* of the left bracketing point whenever the two bracketing ages are equal,
\* so that an all-zero table gives an all-zero stellar state at every age.
C28_DegenerateInterpolation ==
    /\ (res.fn = "flin" /\ res.x1 = res.x2) => res.out = res.y1
    /\ (res.fn = "interpolate_in_time" /\ res.out.ok) =>
          LET T == lib.data
              m == res.mass_idx
              left == BracketIndex(T, m, res.time)
          IN  /\ T.age[m][left] = T.age[m][left + 1] =>
                    /\ res.out.mass = T.mass[m][left]
                    /\ res.out.log_lum = T.log_lum[m][left]
                    /\ res.out.log_teff = T.log_teff[m][left]
              /\ (/\ T.age[m] = Zeros(T.num_points)
                  /\ T.mass[m] = Zeros(T.num_points)
                  /\ T.log_lum[m] = Zeros(T.num_points)
                  /\ T.log_teff[m] = Zeros(T.num_points)) =>
                    /\ res.out.mass = 0
                    /\ res.out.log_lum = 0
                    /\ res.out.log_teff = 0

\* flin was called on two points of equal x and different y, away from them
C28_Witness ==
    /\ res.fn = "flin"
    /\ res.x1 = res.x2 /\ res.x # res.x1
    /\ res.y1 # res.y2

\* C29: after _spectype has run in a step, the sum of sp_type_counts is the
\* sum of dens over the bins with dens > 0: each such bin is counted in
\* exactly one class, no other bin is counted, and nothing is carried over
\* from an earlier step.
C29_SpectypeCountsDensity ==
    (entry # "none" /\ pc \in InLoop /\ "spectype" \in RanOps) =>
        SumSeq(sp_type_counts)
            = SumSeq([i \in 1..Len(cmass) |->
                        IF dens[i] > 0 THEN dens[i] ELSE 0])

\* in a second or later step the calculator has counted two bins of
\* positive density in different classes
C29_Witness ==
    /\ entry # "none" /\ pc \in InLoop /\ "spectype" \in RanOps
    /\ step_count >= 2
    /\ \E a, b \in 1..NSpBins :
          a # b /\ sp_type_counts[a] > 0 /\ sp_type_counts[b] > 0

\* C30: for every mass grid within the grid capacity NPGRID, the per-bin
\* writes of _starpara, _windpower and _supernova stay inside the arrays
\* they write: none of the three ends a step with an IndexError.
C30_PerBinWritesInBounds ==
    Len(cmass) <= NPGRID => err \notin {"starpara", "windpower", "supernova"}

=============================================================================
